---------------------------- MODULE Spec2Model ----------------------------
(***************************************************************************)
(* Model of compressai/transforms/functional.py: the colour-space          *)
(* conversions rgb2ycbcr / ycbcr2rgb, their input validator, and the       *)
(* chroma resamplers yuv_444_to_420 / yuv_420_to_444.                      *)
(*                                                                         *)
(* Tensor elements are modelled as exact rationals <<num, den>> (den > 0,  *)
(* lowest terms): the arithmetic of the source is carried out exactly, so  *)
(* the results are the values the floating-point program approximates.     *)
(* A Python value is a record [kind, dtype, shape, data, elems]:           *)
(*   kind  "tensor" | "tuple" | "number" | "none"                          *)
(*   dtype "float" | "int" for a tensor, "" otherwise                      *)
(*   shape the tensor's size(), data its elements in row-major order       *)
(*   elems the members of a tuple                                          *)
(***************************************************************************)
EXTENDS Integers, Sequences, FiniteSets, TLC

(* ------------------------------ bounds -------------------------------- *)
\* largest batch size N of a generated tensor
MaxN == 2
\* largest height of a generated chroma plane (luma planes reach twice it)
MaxH == 2
\* largest width of a generated chroma plane
MaxW == 2
\* number of element patterns (strides and offsets) a tensor is filled with
MaxSeed == 2

(* --------------------------- exact rationals --------------------------- *)
Abs(n) == IF n < 0 THEN -n ELSE n

RECURSIVE GCD(_, _)
GCD(a, b) == IF b = 0 THEN a ELSE GCD(b, a % b)

\* the rational n/d in lowest terms with a positive denominator (d # 0)
Q(n, d) ==
    LET g == GCD(Abs(n), Abs(d))
        s == IF d < 0 THEN -1 ELSE 1
    IN  <<s * (n \div g), s * (d \div g)>>

QInt(n) == <<n, 1>>

QAdd(a, b) ==
    LET g == GCD(a[2], b[2])
        l == (a[2] \div g) * b[2]
    IN  Q(a[1] * (l \div a[2]) + b[1] * (l \div b[2]), l)

QNeg(a) == <<-a[1], a[2]>>

QSub(a, b) == QAdd(a, QNeg(b))

QMul(a, b) ==
    LET g1 == GCD(Abs(a[1]), b[2])
        g2 == GCD(Abs(b[1]), a[2])
    IN  Q((a[1] \div g1) * (b[1] \div g2), (a[2] \div g2) * (b[2] \div g1))

\* b # 0
QDiv(a, b) == QMul(a, Q(b[2], b[1]))


(* ---------------------------- Python values ---------------------------- *)
Value(k, dt, sh, da, el, ex) ==
    [kind |-> k, dtype |-> dt, shape |-> sh, data |-> da, elems |-> el, exc |-> ex]

None == Value("none", "", <<>>, <<>>, <<>>, "")
Number(q) == Value("number", "", <<>>, <<q>>, <<>>, "")
Tensor(dt, sh, da) == Value("tensor", dt, sh, da, <<>>, "")
Tuple(el) == Value("tuple", "", <<>>, <<>>, el, "")
\* a raised exception, as the outcome of a call
Raise(ex) == Value("error", "", <<>>, <<>>, <<>>, ex)

IsError(v) == v.kind = "error"
\* isinstance(v, Tensor)
IsTensor(v) == v.kind = "tensor"

\* the two ValueErrors the module raises itself, by their messages
InvalidShape == "ValueError: Expected a 4D tensor with shape (Nx3xHxW) as input"
InvalidTriple == "ValueError: Expected a tuple of 3 torch tensors"
\* the errors of the interpreter and of the tensor library
UnpackError == "ValueError: wrong number of values to unpack"
NotIterable == "TypeError: cannot unpack non-iterable object"
DimError == "IndexError: Dimension out of range"
PoolError == "RuntimeError: avg_pool2d: output size is too small or input is not 3D/4D"
InterpError == "NotImplementedError: bilinear mode needs 4D input"
CatError == "RuntimeError: Sizes of tensors must match except in the concatenation dimension"
ArgError == "TypeError: argument must be Tensor"
LenError == "TypeError: object has no len()"

RECURSIVE Prod(_)
Prod(s) == IF s = <<>> THEN 1 ELSE Head(s) * Prod(Tail(s))

Rank(t) == Len(t.shape)
Min(a, b) == IF a < b THEN a ELSE b

\* a Python dimension index (negative counts from the end) as a 0-based one
NormDim(t, dim) == IF dim < 0 THEN Rank(t) + dim ELSE dim
DimOk(t, dim) == NormDim(t, dim) >= 0 /\ NormDim(t, dim) < Rank(t)
\* tensor.size(dim), for DimOk(t, dim)
Size(t, dim) == t.shape[NormDim(t, dim) + 1]
\* the number of elements one step along 0-based dimension d spans
Inner(sh, d) == Prod(SubSeq(sh, d + 2, Len(sh)))

(* ------------------------ tensor-library primitives -------------------- *)
\* tensor.narrow(d, start, len) for a 0-based dimension d
Narrow(t, d, start, len) ==
    LET inner == Inner(t.shape, d)
        outer == Prod(SubSeq(t.shape, 1, d))
        size == t.shape[d + 1]
        src(k) == (((k \div (inner * len)) * size) + start + ((k \div inner) % len)) * inner
                  + (k % inner) + 1
    IN  Tensor(t.dtype, [t.shape EXCEPT ![d + 1] = len],
               [j \in 1..(outer * len * inner) |-> t.data[src(j - 1)]])

\* tensor.chunk(chunks, dim): the tuple of pieces of ceil(size/chunks) slices
\* each (the last one possibly shorter), fewer than `chunks` of them when the
\* size does not reach
chunk(t, chunks, dim) ==
    IF ~DimOk(t, dim) THEN Raise(DimError)
    ELSE LET d == NormDim(t, dim)
             size == t.shape[d + 1]
             split == (size + chunks - 1) \div chunks
             n == IF split = 0 THEN chunks ELSE (size + split - 1) \div split
         IN  Tuple([k \in 1..n |->
                      Narrow(t, d, (k - 1) * split, Min(split, size - (k - 1) * split))])

\* torch.cat of two tensors along 0-based dimension d
Cat2(a, b, d) ==
    LET inner == Inner(a.shape, d)
        outer == Prod(SubSeq(a.shape, 1, d))
        sa == a.shape[d + 1]
        sb == b.shape[d + 1]
        size == sa + sb
        elem(k) == LET o == k \div (inner * size)
                       c == (k \div inner) % size
                       r == k % inner
                   IN  IF c < sa THEN a.data[(o * sa + c) * inner + r + 1]
                       ELSE b.data[(o * sb + (c - sa)) * inner + r + 1]
    IN  Tensor(a.dtype, [a.shape EXCEPT ![d + 1] = size],
               [j \in 1..(outer * size * inner) |-> elem(j - 1)])

\* whether two tensors may be concatenated along 0-based dimension d
CatOk(a, b, d) ==
    /\ Rank(a) = Rank(b)
    /\ \A i \in 1..Rank(a) : i # d + 1 => a.shape[i] = b.shape[i]

\* torch.cat((a, b, c), dim)
cat(a, b, c, dim) ==
    IF ~DimOk(a, dim) THEN Raise(DimError)
    ELSE LET d == NormDim(a, dim)
         IN  IF CatOk(a, b, d) /\ CatOk(a, c, d)
             THEN Cat2(Cat2(a, b, d), c, d)
             ELSE Raise(CatError)

\* elementwise arithmetic of the tensor library: k * t, t + k, t - k, t / k
\* for a Python scalar k, and a + b, a - b for tensors of one shape; each
\* yields a new tensor
SMul(k, t) == Tensor(t.dtype, t.shape, [i \in 1..Len(t.data) |-> QMul(k, t.data[i])])
SAdd(t, k) == Tensor(t.dtype, t.shape, [i \in 1..Len(t.data) |-> QAdd(t.data[i], k)])
SSub(t, k) == Tensor(t.dtype, t.shape, [i \in 1..Len(t.data) |-> QSub(t.data[i], k)])
SDiv(t, k) == Tensor(t.dtype, t.shape, [i \in 1..Len(t.data) |-> QDiv(t.data[i], k)])
TAdd(a, b) ==
    Tensor(a.dtype, a.shape, [i \in 1..Len(a.data) |-> QAdd(a.data[i], b.data[i])])
TSub(a, b) ==
    Tensor(a.dtype, a.shape, [i \in 1..Len(a.data) |-> QSub(a.data[i], b.data[i])])

\* F.avg_pool2d(t, kernel_size=2, stride=2) over the last two dimensions of a
\* 3D or 4D tensor: no padding, floor mode, each output the sum of its 2x2
\* window divided by 4; an output extent below 1 is an error
avg_pool2d(t) ==
    IF ~IsTensor(t) THEN Raise(ArgError)
    ELSE IF Rank(t) \notin {3, 4} THEN Raise(PoolError)
    ELSE LET r == Rank(t)
             H == t.shape[r - 1]
             W == t.shape[r]
             Ho == ((H - 2) \div 2) + 1
             Wo == ((W - 2) \div 2) + 1
             lead == Prod(SubSeq(t.shape, 1, r - 2))
             in(l, i, j) == t.data[(l * H + i) * W + j + 1]
             out(k) == LET l == k \div (Ho * Wo)
                           i == (k \div Wo) % Ho
                           j == k % Wo
                       IN  QDiv(QAdd(QAdd(in(l, 2 * i, 2 * j), in(l, 2 * i, 2 * j + 1)),
                                     QAdd(in(l, 2 * i + 1, 2 * j), in(l, 2 * i + 1, 2 * j + 1))),
                                QInt(4))
         IN  IF Ho < 1 \/ Wo < 1 THEN Raise(PoolError)
             ELSE Tensor(t.dtype, [t.shape EXCEPT ![r - 1] = Ho, ![r] = Wo],
                         [k \in 1..(lead * Ho * Wo) |-> out(k - 1)])

\* the source coordinate of output index dst, in quarters: 0.5 * (dst + 0.5) - 0.5
\* clamped at 0 (align_corners=False, scale_factor=2)
SrcQuarters(dst) == IF 2 * dst - 1 < 0 THEN 0 ELSE 2 * dst - 1

\* F.interpolate(t, scale_factor=2, mode='bilinear', align_corners=False):
\* a 4D tensor only; each output is the bilinear blend of the (up to) four
\* inputs around its source coordinate, the upper neighbour clamped to the edge
interpolate(t) ==
    IF ~IsTensor(t) THEN Raise(ArgError)
    ELSE IF Rank(t) # 4 THEN Raise(InterpError)
    ELSE LET H == t.shape[3]
             W == t.shape[4]
             Ho == 2 * H
             Wo == 2 * W
             lead == t.shape[1] * t.shape[2]
             in(l, i, j) == t.data[(l * H + i) * W + j + 1]
             out(k) ==
                 LET l == k \div (Ho * Wo)
                     h1 == SrcQuarters((k \div Wo) % Ho) \div 4
                     w1 == SrcQuarters(k % Wo) \div 4
                     h1p == IF h1 < H - 1 THEN 1 ELSE 0
                     w1p == IF w1 < W - 1 THEN 1 ELSE 0
                     h1l == Q(SrcQuarters((k \div Wo) % Ho) % 4, 4)
                     w1l == Q(SrcQuarters(k % Wo) % 4, 4)
                     h0l == QSub(QInt(1), h1l)
                     w0l == QSub(QInt(1), w1l)
                 IN  QAdd(QMul(h0l, QAdd(QMul(w0l, in(l, h1, w1)),
                                         QMul(w1l, in(l, h1, w1 + w1p)))),
                          QMul(h1l, QAdd(QMul(w0l, in(l, h1 + h1p, w1)),
                                         QMul(w1l, in(l, h1 + h1p, w1 + w1p)))))
         IN  Tensor(t.dtype, [t.shape EXCEPT ![3] = Ho, ![4] = Wo],
                    [k \in 1..(lead * Ho * Wo) |-> out(k - 1)])

(* ----------------------- the module's own code ------------------------- *)
\* (mutant) the table with two digits of K_g transposed
WeightTableTypo == [std \in {"ITU-R_BT.709"} |-> <<Q(2126, 10000), Q(7512, 10000), Q(722, 10000)>>]

\* the value the module-level dictionary YCBCR_WEIGHTS is initialised to
WeightTable == [std \in {"ITU-R_BT.709"} |-> <<Q(2126, 10000), Q(7152, 10000), Q(722, 10000)>>]

Half == Q(1, 2)
One == QInt(1)
Two == QInt(2)

\* tensor.is_floating_point()
is_floating_point(t) == t.dtype = "float"

\* (mutant) the validator without its rank test
_check_input_tensor_norank(tensor) ==
    IF ~IsTensor(tensor) THEN Raise(InvalidShape)
    ELSE IF ~is_floating_point(tensor) THEN Raise(InvalidShape)
    ELSE IF ~DimOk(tensor, -3) THEN Raise(DimError)
    ELSE IF ~(Size(tensor, -3) = 3) THEN Raise(InvalidShape)
    ELSE None

\* _check_input_tensor: the four tests of the `or` chain in their order, each
\* evaluated only when those before it did not already decide; None when the
\* tensor passes, the raised exception otherwise
_check_input_tensor(tensor) ==
    IF ~IsTensor(tensor) THEN Raise(InvalidShape)
    ELSE IF ~is_floating_point(tensor) THEN Raise(InvalidShape)
    ELSE IF ~(Rank(tensor) \in {3, 4}) THEN Raise(InvalidShape)
    ELSE IF ~DimOk(tensor, -3) THEN Raise(DimError)
    ELSE IF ~(Size(tensor, -3) = 3) THEN Raise(InvalidShape)
    ELSE None

\* whether len(v) is defined: a tuple, or a tensor of rank 1 or more
Sized(v) == v.kind = "tuple" \/ (IsTensor(v) /\ Rank(v) > 0)

\* the members iterating over a sized value yields: a tuple's elements, a
\* tensor's slices along its first dimension
Items(v) ==
    IF v.kind = "tuple" THEN v.elems
    ELSE [i \in 1..v.shape[1] |->
            Tensor(v.dtype, Tail(v.shape), Narrow(v, 0, i - 1, 1).data)]

\* `a, b, c = v` for a tuple or the outcome of chunk: the three members, or
\* the error the unpacking raises
Unpack3(v) ==
    IF IsError(v) THEN v
    ELSE IF ~Sized(v) THEN Raise(NotIterable)
    ELSE IF Len(Items(v)) # 3 THEN Raise(UnpackError)
    ELSE Tuple(Items(v))

\* the first exception among the values, in evaluation order, or None
FirstError(vs) ==
    IF \E i \in 1..Len(vs) : IsError(vs[i])
    THEN vs[CHOOSE i \in 1..Len(vs) : IsError(vs[i]) /\ \A j \in 1..(i - 1) : ~IsError(vs[j])]
    ELSE None

\* a call's outcome: what it returns or raises, and the state it leaves its
\* argument object in
Outcome(r, a) == [ret |-> r, arg |-> a]

\* (mutant) rgb2ycbcr concatenating its planes along the first dimension
rgb2ycbcr_cat0(rgb, w) ==
    IF IsError(_check_input_tensor(rgb)) THEN Outcome(_check_input_tensor(rgb), rgb)
    ELSE LET p == chunk(rgb, 3, -3).elems
             Kr == w["ITU-R_BT.709"][1]
             Kg == w["ITU-R_BT.709"][2]
             Kb == w["ITU-R_BT.709"][3]
             y == TAdd(TAdd(SMul(Kr, p[1]), SMul(Kg, p[2])), SMul(Kb, p[3]))
             cb == SAdd(SDiv(SMul(Half, TSub(p[3], y)), QSub(One, Kb)), Half)
             cr == SAdd(SDiv(SMul(Half, TSub(p[1], y)), QSub(One, Kr)), Half)
         IN  Outcome(cat(y, cb, cr, 0), rgb)

\* (mutant) rgb2ycbcr computing in place: the result overwrites the argument
rgb2ycbcr_inplace(rgb, w) ==
    IF IsError(_check_input_tensor(rgb)) THEN Outcome(_check_input_tensor(rgb), rgb)
    ELSE LET p == chunk(rgb, 3, -3).elems
             Kr == w["ITU-R_BT.709"][1]
             Kg == w["ITU-R_BT.709"][2]
             Kb == w["ITU-R_BT.709"][3]
             y == TAdd(TAdd(SMul(Kr, p[1]), SMul(Kg, p[2])), SMul(Kb, p[3]))
             cb == SAdd(SDiv(SMul(Half, TSub(p[3], y)), QSub(One, Kb)), Half)
             cr == SAdd(SDiv(SMul(Half, TSub(p[1], y)), QSub(One, Kr)), Half)
         IN  Outcome(cat(y, cb, cr, -3), cat(y, cb, cr, -3))

\* rgb2ycbcr(rgb), reading the weight table w
rgb2ycbcr(rgb, w) ==
    IF IsError(_check_input_tensor(rgb)) THEN Outcome(_check_input_tensor(rgb), rgb)
    ELSE LET p == chunk(rgb, 3, -3).elems
             r == p[1]
             g == p[2]
             b == p[3]
             Kr == w["ITU-R_BT.709"][1]
             Kg == w["ITU-R_BT.709"][2]
             Kb == w["ITU-R_BT.709"][3]
             y == TAdd(TAdd(SMul(Kr, r), SMul(Kg, g)), SMul(Kb, b))
             cb == SAdd(SDiv(SMul(Half, TSub(b, y)), QSub(One, Kb)), Half)
             cr == SAdd(SDiv(SMul(Half, TSub(r, y)), QSub(One, Kr)), Half)
         IN  Outcome(cat(y, cb, cr, -3), rgb)

\* (mutant) ycbcr2rgb clamping its result to [0, 1]
ycbcr2rgb_clamped(ycbcr, w) ==
    IF IsError(_check_input_tensor(ycbcr)) THEN Outcome(_check_input_tensor(ycbcr), ycbcr)
    ELSE LET p == chunk(ycbcr, 3, -3).elems
             Kr == w["ITU-R_BT.709"][1]
             Kg == w["ITU-R_BT.709"][2]
             Kb == w["ITU-R_BT.709"][3]
             r == TAdd(p[1], SMul(QSub(Two, QMul(Two, Kr)), SSub(p[3], Half)))
             b == TAdd(p[1], SMul(QSub(Two, QMul(Two, Kb)), SSub(p[2], Half)))
             g == SDiv(TSub(TSub(p[1], SMul(Kr, r)), SMul(Kb, b)), Kg)
             rgb == cat(r, g, b, -3)
             clamp(x) == IF x[1] < 0 THEN QInt(0) ELSE IF x[1] > x[2] THEN One ELSE x
         IN  Outcome(Tensor(rgb.dtype, rgb.shape,
                            [i \in 1..Len(rgb.data) |-> clamp(rgb.data[i])]), ycbcr)

\* ycbcr2rgb(ycbcr), reading the weight table w
ycbcr2rgb(ycbcr, w) ==
    IF IsError(_check_input_tensor(ycbcr)) THEN Outcome(_check_input_tensor(ycbcr), ycbcr)
    ELSE LET p == chunk(ycbcr, 3, -3).elems
             y == p[1]
             cb == p[2]
             cr == p[3]
             Kr == w["ITU-R_BT.709"][1]
             Kg == w["ITU-R_BT.709"][2]
             Kb == w["ITU-R_BT.709"][3]
             r == TAdd(y, SMul(QSub(Two, QMul(Two, Kr)), SSub(cr, Half)))
             b == TAdd(y, SMul(QSub(Two, QMul(Two, Kb)), SSub(cb, Half)))
             g == SDiv(TSub(TSub(y, SMul(Kr, r)), SMul(Kb, b)), Kg)
         IN  Outcome(cat(r, g, b, -3), ycbcr)

\* (mutant) downsampling by keeping the top-left sample of each 2x2 block
_downsample_strided(tensor) ==
    IF IsError(avg_pool2d(tensor)) THEN avg_pool2d(tensor)
    ELSE LET d == avg_pool2d(tensor)
             r == Rank(tensor)
             H == tensor.shape[r - 1]
             W == tensor.shape[r]
             Ho == d.shape[r - 1]
             Wo == d.shape[r]
         IN  Tensor(d.dtype, d.shape,
                    [k \in 1..Len(d.data) |->
                        tensor.data[(((k - 1) \div (Ho * Wo)) * H + 2 * (((k - 1) \div Wo) % Ho)) * W
                                    + 2 * ((k - 1) % Wo) + 1]])

\* _downsample of yuv_444_to_420
_downsample(tensor) == avg_pool2d(tensor)

\* (mutant) yuv_444_to_420 chunking a packed tensor along dimension 0
yuv_444_to_420_dim0(yuv) ==
    LET t == IF IsTensor(yuv) THEN Unpack3(chunk(yuv, 3, 0)) ELSE Unpack3(yuv)
    IN  IF IsError(t) THEN Outcome(t, yuv)
        ELSE LET u == avg_pool2d(t.elems[2])
                 v == avg_pool2d(t.elems[3])
             IN  IF IsError(FirstError(<<u, v>>)) THEN Outcome(FirstError(<<u, v>>), yuv)
                 ELSE Outcome(Tuple(<<t.elems[1], u, v>>), yuv)

\* yuv_444_to_420(yuv): a tensor is chunked into three along dimension 1,
\* anything else is unpacked as it is
yuv_444_to_420(yuv) ==
    LET t == IF IsTensor(yuv) THEN Unpack3(chunk(yuv, 3, 1)) ELSE Unpack3(yuv)
    IN  IF IsError(t) THEN Outcome(t, yuv)
        ELSE LET y == t.elems[1]
                 u == _downsample(t.elems[2])
                 v == _downsample(t.elems[3])
             IN  IF IsError(FirstError(<<u, v>>)) THEN Outcome(FirstError(<<u, v>>), yuv)
                 ELSE Outcome(Tuple(<<y, u, v>>), yuv)

\* (mutant) upsampling with a scale factor of 1
_upsample_noscale(tensor) ==
    IF IsError(interpolate(tensor)) THEN interpolate(tensor) ELSE tensor

\* _upsample of yuv_420_to_444
_upsample(tensor) == interpolate(tensor)

\* (mutant) return_tuple defaulting to True
ReturnTupleDefaultTrue(opt) == IF opt = "omitted" THEN TRUE ELSE opt = "True"

\* the return_tuple parameter as the callee sees it: False when omitted
ReturnTuple(opt) == IF opt = "omitted" THEN FALSE ELSE opt = "True"

\* (mutant) the triple check without its isinstance test
NotTripleLenOnly(yuv) == Len(Items(yuv)) # 3

\* len(yuv) != 3 or any(not isinstance(c, torch.Tensor) for c in yuv)
NotTriple(yuv) ==
    \/ Len(Items(yuv)) # 3
    \/ \E i \in 1..Len(Items(yuv)) : ~IsTensor(Items(yuv)[i])

\* yuv_420_to_444(yuv, return_tuple)
yuv_420_to_444(yuv, opt) ==
    IF ~Sized(yuv) THEN Outcome(Raise(LenError), yuv)
    ELSE IF NotTriple(yuv) THEN Outcome(Raise(InvalidTriple), yuv)
    ELSE LET y == Items(yuv)[1]
             u == _upsample(Items(yuv)[2])
             v == _upsample(Items(yuv)[3])
         IN  IF IsError(FirstError(<<u, v>>)) THEN Outcome(FirstError(<<u, v>>), yuv)
             ELSE IF ReturnTuple(opt) THEN Outcome(Tuple(<<y, u, v>>), yuv)
             ELSE Outcome(cat(y, u, v, 1), yuv)

(* ------------------------------ inputs -------------------------------- *)
\* the element values tensors are filled with: inside and outside [0, 1]
Vals == <<Q(1, 1), Q(0, 1), Q(1, 2), Q(-1, 1), Q(3, 4), Q(2, 1), Q(1, 4)>>

\* the elements of a tensor of shape sh: Vals walked with stride a from offset b
Fill(sh, a, b) == [i \in 1..Prod(sh) |-> Vals[((a * (i - 1) + b) % Len(Vals)) + 1]]

Seeds == 0..MaxSeed

FloatTensors(shapes) ==
    {Tensor("float", sh, Fill(sh, a, b)) : sh \in shapes, a \in Seeds, b \in Seeds}

IntTensors(shapes) ==
    {Tensor("int", sh, [i \in 1..Prod(sh) |-> QInt((i + b) % 3)]) : sh \in shapes, b \in Seeds}

\* image shapes (3,H,W) and (N,3,H,W)
ImageShapes(maxH, maxW) ==
    {<<3, h, w>> : h \in 1..maxH, w \in 1..maxW}
    \cup {<<n, 3, h, w>> : n \in 1..MaxN, h \in 1..maxH, w \in 1..maxW}

\* shapes the validator must refuse: rank 1, 2 and 5, channel axis of 1, 2 or 4
BadShapes ==
    {<<3>>, <<3, 3>>, <<3, 1>>, <<1, 1, 3, 1, 1>>, <<3, 3, 3, 3, 3>>}
    \cup {<<c, h, w>> : c \in {1, 2, 4}, h \in 1..MaxH, w \in 1..MaxW}
    \cup {<<n, c, 1, 1>> : n \in {1, 3}, c \in {1, 2, 4}}

\* the planes of a packed image as a tuple: a split along the channel axis
PlanesOf(img) ==
    Tuple([c \in 1..3 |-> Narrow(img, Rank(img) - 3, c - 1, 1)])

\* what a caller may hand to rgb2ycbcr / ycbcr2rgb
ColorInputs ==
    FloatTensors(ImageShapes(MaxH, MaxW) \cup BadShapes)
    \cup IntTensors(ImageShapes(1, 1))
    \cup {None, Number(One), Number(Half)}
    \cup {PlanesOf(t) : t \in FloatTensors({<<3, 1, 1>>})}

\* what a caller may hand to yuv_444_to_420: packed 4:4:4 images of either
\* rank and the plane triples of the same images
Images444 == FloatTensors(ImageShapes(2 * MaxH, 2 * MaxW))
Inputs444 == Images444 \cup {PlanesOf(t) : t \in Images444}

\* a 4:2:0 triple with chroma planes of shape sh, luma of twice the extent
Triple420(sh, a, b) ==
    LET r == Len(sh)
        ysh == [sh EXCEPT ![r - 1] = 2 * sh[r - 1], ![r] = 2 * sh[r]]
    IN  Tuple(<<Tensor("float", ysh, Fill(ysh, a, b)),
                Tensor("float", sh, Fill(sh, a, b + 1)),
                Tensor("float", sh, Fill(sh, a, b + 2))>>)

PlaneShapes ==
    {<<1, h, w>> : h \in 1..MaxH, w \in 1..MaxW}
    \cup {<<n, 1, h, w>> : n \in 1..MaxN, h \in 1..MaxH, w \in 1..MaxW}

Triples420 == {Triple420(sh, a, b) : sh \in PlaneShapes, a \in Seeds, b \in Seeds}

\* collections that are no triple of tensors: too short, too long, a member
\* that is a number
BadTriples ==
    LET t == Triple420(<<1, 1, 1, 1>>, 1, 0).elems
        t3 == Triple420(<<1, 1, 1>>, 1, 0).elems
    IN  {Tuple(<<t3[1], t3[2], Number(One)>>),
         Tuple(<<>>), Tuple(<<t[1]>>), Tuple(<<t[1], t[2]>>),
         Tuple(<<t[1], t[2], t[3], t[3]>>),
         Tuple(<<Number(One), t[2], t[3]>>), Tuple(<<t[1], Number(One), t[3]>>),
         Tuple(<<t[1], t[2], Number(Half)>>), Tuple(<<Number(One), Number(One)>>),
         Tuple(<<t[1], t[2], None>>)}

\* what a caller may hand to yuv_420_to_444
Inputs420 ==
    Triples420 \cup BadTriples \cup {None, Number(One)}
    \cup FloatTensors({<<2, 1, 1, 1>>, <<3, 1, 1, 1>>, <<3, 1, 1>>, <<4, 1, 1>>})

Options == {"omitted", "True", "False"}

(* ---------------------------- state machine --------------------------- *)
VARIABLES
    YCBCR_WEIGHTS,  \* the module-level weight dictionary
    hist,           \* one caller: the calls made so far, each [op, opt, arg, post, ret]
    objs,           \* concurrent callers: the objects they own and pass
    frames          \* concurrent callers: the call each site is in, [pc, op, opt, ref, ret]

vars == <<YCBCR_WEIGHTS, hist, objs, frames>>

Call(op, opt, x, out) == [op |-> op, opt |-> opt, arg |-> x, post |-> out.arg, ret |-> out.ret]

\* the conversion that undoes op
Inverse(op) ==
    CASE op = "rgb2ycbcr" -> "ycbcr2rgb"
      [] op = "ycbcr2rgb" -> "rgb2ycbcr"
      [] op = "yuv_444_to_420" -> "yuv_420_to_444"
      [] op = "yuv_420_to_444" -> "yuv_444_to_420"

\* the arguments a caller passes to op: a fresh input, or the result of the
\* opposite conversion just made
Feed(op, fresh) ==
    IF hist = <<>> THEN fresh
    ELSE IF Len(hist) = 1 /\ hist[1].op = Inverse(op) /\ ~IsError(hist[1].ret)
         THEN {hist[1].ret}
         ELSE {}

Init ==
    /\ YCBCR_WEIGHTS = WeightTable
    /\ hist = <<>>
    /\ objs = <<>>
    /\ frames = <<>>

Rgb2ycbcr ==
    \E x \in Feed("rgb2ycbcr", ColorInputs) :
        /\ hist' = Append(hist, Call("rgb2ycbcr", "", x, rgb2ycbcr(x, YCBCR_WEIGHTS)))
        /\ UNCHANGED <<YCBCR_WEIGHTS, objs, frames>>

Ycbcr2rgb ==
    \E x \in Feed("ycbcr2rgb", ColorInputs) :
        /\ hist' = Append(hist, Call("ycbcr2rgb", "", x, ycbcr2rgb(x, YCBCR_WEIGHTS)))
        /\ UNCHANGED <<YCBCR_WEIGHTS, objs, frames>>

Yuv444to420 ==
    \E x \in Feed("yuv_444_to_420", Inputs444) :
        /\ hist' = Append(hist, Call("yuv_444_to_420", "", x, yuv_444_to_420(x)))
        /\ UNCHANGED <<YCBCR_WEIGHTS, objs, frames>>

Yuv420to444 ==
    \E x \in Feed("yuv_420_to_444", Inputs420), opt \in Options :
        /\ hist' = Append(hist, Call("yuv_420_to_444", opt, x, yuv_420_to_444(x, opt)))
        /\ UNCHANGED <<YCBCR_WEIGHTS, objs, frames>>

Next == Rgb2ycbcr \/ Ycbcr2rgb \/ Yuv444to420 \/ Yuv420to444

Spec == Init /\ [][Next]_vars

(* ------------------------ concurrent call sites ------------------------ *)
\* number of call sites invoking the module at the same time
NumSites == 2
Sites == 1..NumSites

Ops == {"rgb2ycbcr", "ycbcr2rgb", "yuv_444_to_420", "yuv_420_to_444"}

\* the objects the call sites share: a packed image, a 4:2:0 triple, and a
\* collection every function refuses
SharedObjs ==
    <<Tensor("float", <<1, 3, 2, 2>>, Fill(<<1, 3, 2, 2>>, 1, 0)),
      Triple420(<<1, 1, 1, 1>>, 1, 2),
      Tuple(<<Number(One), Number(Half)>>)>>

Idle == [pc |-> "idle", op |-> "", opt |-> "", ref |-> 0, ret |-> None]

\* what a function does on entry, before it computes anything: the validator
\* of the colour conversions, the unpacking of yuv_444_to_420, the triple check
\* of yuv_420_to_444; None when the call goes on, the exception otherwise
EntryCheck(op, x) ==
    CASE op \in {"rgb2ycbcr", "ycbcr2rgb"} -> _check_input_tensor(x)
      [] op = "yuv_444_to_420" ->
            LET t == IF IsTensor(x) THEN Unpack3(chunk(x, 3, 1)) ELSE Unpack3(x)
            IN  IF IsError(t) THEN t ELSE None
      [] op = "yuv_420_to_444" ->
            IF ~Sized(x) THEN Raise(LenError)
            ELSE IF NotTriple(x) THEN Raise(InvalidTriple)
            ELSE None

\* the outcome of the whole call op(x) with option opt under weight table w
Apply(op, x, opt, w) ==
    CASE op = "rgb2ycbcr" -> rgb2ycbcr(x, w)
      [] op = "ycbcr2rgb" -> ycbcr2rgb(x, w)
      [] op = "yuv_444_to_420" -> yuv_444_to_420(x)
      [] op = "yuv_420_to_444" -> yuv_420_to_444(x, opt)

InitConc ==
    /\ YCBCR_WEIGHTS = WeightTable
    /\ hist = <<>>
    /\ objs = SharedObjs
    /\ frames = [p \in Sites |-> Idle]

\* site p calls op on one of the shared objects
Invoke(p) ==
    /\ frames[p].pc = "idle"
    /\ \E op \in Ops, ref \in DOMAIN objs, opt \in Options :
         /\ (op # "yuv_420_to_444" => opt = "omitted")
         /\ frames' = [frames EXCEPT ![p] =
                          [pc |-> "entered", op |-> op, opt |-> opt, ref |-> ref, ret |-> None]]
    /\ UNCHANGED <<YCBCR_WEIGHTS, hist, objs>>

\* the callee's entry check reads the object; a failure ends the call
Validate(p) ==
    /\ frames[p].pc = "entered"
    /\ LET e == EntryCheck(frames[p].op, objs[frames[p].ref])
       IN  frames' = [frames EXCEPT ![p].pc = IF IsError(e) THEN "done" ELSE "checked",
                                    ![p].ret = e]
    /\ UNCHANGED <<YCBCR_WEIGHTS, hist, objs>>

\* the callee reads the object and the weight table and computes its result
Compute(p) ==
    /\ frames[p].pc = "checked"
    /\ LET out == Apply(frames[p].op, objs[frames[p].ref], frames[p].opt, YCBCR_WEIGHTS)
       IN  /\ frames' = [frames EXCEPT ![p].pc = "done", ![p].ret = out.ret]
           /\ objs' = [objs EXCEPT ![frames[p].ref] = out.arg]
    /\ UNCHANGED <<YCBCR_WEIGHTS, hist>>

\* the caller takes the result; the site is free for its next call
Return(p) ==
    /\ frames[p].pc = "done"
    /\ frames' = [frames EXCEPT ![p] = Idle]
    /\ UNCHANGED <<YCBCR_WEIGHTS, hist, objs>>

NextConc == \E p \in Sites : Invoke(p) \/ Validate(p) \/ Compute(p) \/ Return(p)

SpecConc == InitConc /\ [][NextConc]_vars

(* ------------------- vocabulary of the properties --------------------- *)
Calls == 1..Len(hist)
ColorOps == {"rgb2ycbcr", "ycbcr2rgb"}

\* a floating-point tensor of rank 3 or 4 whose third-from-last axis has size 3
ValidImage(x) ==
    /\ x.kind = "tensor"
    /\ x.dtype = "float"
    /\ Len(x.shape) \in {3, 4}
    /\ x.shape[Len(x.shape) - 2] = 3

\* height, width and number of images of an image or plane tensor
HeightOf(t) == t.shape[Len(t.shape) - 1]
WidthOf(t) == t.shape[Len(t.shape)]
BatchOf(t) == IF Len(t.shape) = 4 THEN t.shape[1] ELSE 1
ChannelsOf(t) == t.shape[Len(t.shape) - 2]

\* the element of image n (from 0), channel c (from 0), row i, column j
Pixel(t, n, c, i, j) ==
    t.data[((n * ChannelsOf(t) + c) * HeightOf(t) + i) * WidthOf(t) + j + 1]

\* the positions (image, row, column) of a tensor
Positions(t) == (0..(BatchOf(t) - 1)) \X (0..(HeightOf(t) - 1)) \X (0..(WidthOf(t) - 1))

\* the shape of t with height h and width w instead
Resized(t, h, w) == [t.shape EXCEPT ![Len(t.shape) - 1] = h, ![Len(t.shape)] = w]

\* C1 -- rgb2ycbcr and ycbcr2rgb pass validation exactly when the input is a
\* floating-point tensor of rank 3 or 4 with size 3 on its third-from-last
\* axis; every other input ends the call with the InvalidShape error, no other
\* error, and no output.
C1_ValidationExact ==
    \A i \in Calls :
        hist[i].op \in ColorOps =>
            IF ValidImage(hist[i].arg)
            THEN hist[i].ret.kind = "tensor"
            ELSE hist[i].ret = Raise(InvalidShape)

\* a rank-2 tensor, whose third-from-last axis does not exist, was refused
C1_Witness ==
    \E i \in Calls :
        /\ hist[i].op = "ycbcr2rgb"
        /\ hist[i].arg.kind = "tensor" /\ hist[i].arg.dtype = "float"
        /\ Len(hist[i].arg.shape) = 2
        /\ hist[i].ret = Raise(InvalidShape)

\* C2 -- rgb2ycbcr and ycbcr2rgb are exact inverses: converting a valid
\* tensor and converting the result back, in either order, returns the
\* original tensor element by element, whatever the element values.
C2_RoundTrip ==
    (Len(hist) = 2 /\ hist[1].op \in ColorOps) => hist[2].ret = hist[1].arg

\* a batch with an element outside [0, 1] went through rgb2ycbcr, changed, and
\* came back
C2_Witness ==
    /\ Len(hist) = 2
    /\ hist[1].op = "rgb2ycbcr" /\ hist[2].op = "ycbcr2rgb"
    /\ Len(hist[1].arg.shape) = 4
    /\ \E k \in DOMAIN hist[1].arg.data : hist[1].arg.data[k] = Q(-1, 1)
    /\ hist[1].ret # hist[1].arg
    /\ hist[2].arg = hist[1].ret
    /\ hist[2].ret = hist[1].arg

\* the conversions as the formulas of the standard, pixel by pixel
Kr == YCBCR_WEIGHTS["ITU-R_BT.709"][1]
Kg == YCBCR_WEIGHTS["ITU-R_BT.709"][2]
Kb == YCBCR_WEIGHTS["ITU-R_BT.709"][3]
LumaOf(r, g, b) == QAdd(QAdd(QMul(Kr, r), QMul(Kg, g)), QMul(Kb, b))
ChromaOf(c, y, k) == QAdd(QDiv(QMul(Half, QSub(c, y)), QSub(One, k)), Half)
PrimaryOf(y, c, k) == QAdd(y, QMul(QSub(Two, QMul(Two, k)), QSub(c, Half)))
GreenOf(y, r, b) == QDiv(QSub(QSub(y, QMul(Kr, r)), QMul(Kb, b)), Kg)

\* C7 -- the output of rgb2ycbcr and of ycbcr2rgb has the shape of its input,
\* for rank 3 and rank 4, and holds on the channel axis the planes Y, Cb, Cr
\* (respectively R, G, B) in that order.
C7_ShapeAndOrder ==
    \A i \in Calls :
        (hist[i].op \in ColorOps /\ ValidImage(hist[i].arg)) =>
            LET x == hist[i].arg
                o == hist[i].ret
            IN  /\ o.kind = "tensor"
                /\ o.shape = x.shape
                /\ \A p \in Positions(x) :
                     LET a == Pixel(x, p[1], 0, p[2], p[3])
                         b == Pixel(x, p[1], 1, p[2], p[3])
                         c == Pixel(x, p[1], 2, p[2], p[3])
                     IN  IF hist[i].op = "rgb2ycbcr"
                         THEN /\ Pixel(o, p[1], 0, p[2], p[3]) = LumaOf(a, b, c)
                              /\ Pixel(o, p[1], 1, p[2], p[3]) = ChromaOf(c, LumaOf(a, b, c), Kb)
                              /\ Pixel(o, p[1], 2, p[2], p[3]) = ChromaOf(a, LumaOf(a, b, c), Kr)
                         ELSE /\ Pixel(o, p[1], 0, p[2], p[3]) = PrimaryOf(a, c, Kr)
                              /\ Pixel(o, p[1], 2, p[2], p[3]) = PrimaryOf(a, b, Kb)
                              /\ Pixel(o, p[1], 1, p[2], p[3]) =
                                     GreenOf(a, PrimaryOf(a, c, Kr), PrimaryOf(a, b, Kb))

\* a batch of two images with more than one pixel each was converted
C7_Witness ==
    \E i \in Calls :
        /\ hist[i].op = "rgb2ycbcr"
        /\ ValidImage(hist[i].arg)
        /\ hist[i].arg.shape = <<2, 3, 2, 2>>
        /\ hist[i].ret.shape = <<2, 3, 2, 2>>
        /\ hist[i].ret # hist[i].arg

\* C8 -- the weights sum to 1, so rgb2ycbcr maps every grey pixel R = G = B = c
\* to Y = c, Cb = 0.5, Cr = 0.5.
C8_GreyIsNeutral ==
    /\ QAdd(QAdd(Kr, Kg), Kb) = One
    /\ Kg = QSub(QSub(One, Kr), Kb)
    /\ \A i \in Calls :
         (hist[i].op = "rgb2ycbcr" /\ ValidImage(hist[i].arg)) =>
             \A p \in Positions(hist[i].arg) :
                 LET x == hist[i].arg
                     o == hist[i].ret
                     c == Pixel(x, p[1], 0, p[2], p[3])
                 IN  (Pixel(x, p[1], 1, p[2], p[3]) = c /\ Pixel(x, p[1], 2, p[2], p[3]) = c)
                     => /\ Pixel(o, p[1], 0, p[2], p[3]) = c
                        /\ Pixel(o, p[1], 1, p[2], p[3]) = Half
                        /\ Pixel(o, p[1], 2, p[2], p[3]) = Half

\* the uniform tensor R = G = B = 1.0 of shape (1,3,2,2) was converted
C8_Witness ==
    \E i \in Calls :
        /\ hist[i].op = "rgb2ycbcr"
        /\ hist[i].arg.shape = <<1, 3, 2, 2>>
        /\ \A k \in DOMAIN hist[i].arg.data : hist[i].arg.data[k] = One
        /\ hist[i].ret.kind = "tensor"
        /\ \A k \in 1..4 : hist[i].ret.data[k] = One
        /\ \A k \in 5..12 : hist[i].ret.data[k] = Half

\* a single-plane tensor (1,H,W) or (N,1,H,W)
IsPlane(t) == t.kind = "tensor" /\ Len(t.shape) \in {3, 4} /\ ChannelsOf(t) = 1

\* a 4:4:4 image as yuv_444_to_420 takes it: a packed tensor (N,3,H,W), or a
\* triple of single-plane tensors
Packed444(x) == ValidImage(x) /\ Len(x.shape) = 4
Triple444(x) == x.kind = "tuple" /\ Len(x.elems) = 3 /\ \A c \in 1..3 : IsPlane(x.elems[c])
\* its three planes, split on the channel axis
InPlanes(x) == IF x.kind = "tensor" THEN PlanesOf(x).elems ELSE x.elems

\* plane d is plane t averaged over disjoint 2x2 blocks, a trailing odd row or
\* column dropped
BlockMean(d, t) ==
    /\ d.kind = "tensor"
    /\ d.shape = Resized(t, HeightOf(t) \div 2, WidthOf(t) \div 2)
    /\ \A p \in Positions(d) :
         QMul(QInt(4), Pixel(d, p[1], 0, p[2], p[3])) =
             QAdd(QAdd(Pixel(t, p[1], 0, 2 * p[2], 2 * p[3]),
                       Pixel(t, p[1], 0, 2 * p[2], 2 * p[3] + 1)),
                  QAdd(Pixel(t, p[1], 0, 2 * p[2] + 1, 2 * p[3]),
                       Pixel(t, p[1], 0, 2 * p[2] + 1, 2 * p[3] + 1)))

\* the result r is the triple (Y, U_down, V_down) of the image x
Downsampled(r, x) ==
    /\ r.kind = "tuple" /\ Len(r.elems) = 3
    /\ r.elems[1] = InPlanes(x)[1]
    /\ BlockMean(r.elems[2], InPlanes(x)[2])
    /\ BlockMean(r.elems[3], InPlanes(x)[3])

\* every chroma plane of x has at least two rows and two columns
ChromaAtLeast2(x) ==
    \A c \in 2..3 : HeightOf(InPlanes(x)[c]) >= 2 /\ WidthOf(InPlanes(x)[c]) >= 2

\* C3 as stated -- yuv_444_to_420 always returns the triple (Y, U_down, V_down):
\* Y unchanged, each chroma plane of size HxW replaced by the floor(H/2) x
\* floor(W/2) plane of its 2x2 block means; odd extents are truncated, never
\* rejected.
C3_AlwaysDownsamples ==
    \A i \in Calls :
        (hist[i].op = "yuv_444_to_420" /\ (Packed444(hist[i].arg) \/ Triple444(hist[i].arg)))
            => Downsampled(hist[i].ret, hist[i].arg)

\* C3 amended -- for chroma planes of at least 2 rows and 2 columns
\* yuv_444_to_420 returns the triple (Y, U_down, V_down) with Y unchanged and
\* the chroma planes block-averaged to floor(H/2) x floor(W/2), odd extents
\* truncated; a chroma plane with a single row or column is rejected by the
\* averaging primitive and nothing is returned.
C3_DownsamplesFrom2 ==
    \A i \in Calls :
        (hist[i].op = "yuv_444_to_420" /\ (Packed444(hist[i].arg) \/ Triple444(hist[i].arg)))
            => IF ChromaAtLeast2(hist[i].arg)
               THEN Downsampled(hist[i].ret, hist[i].arg)
               ELSE hist[i].ret = Raise(PoolError)

\* a packed image with an odd number of rows and columns (3x3) was downsampled
\* to 1x1 chroma planes
C3_Witness ==
    \E i \in Calls :
        /\ hist[i].op = "yuv_444_to_420"
        /\ Packed444(hist[i].arg)
        /\ HeightOf(hist[i].arg) = 3 /\ WidthOf(hist[i].arg) = 3
        /\ hist[i].ret.kind = "tuple"
        /\ hist[i].ret.elems[2].shape = <<BatchOf(hist[i].arg), 1, 1, 1>>
        /\ hist[i].ret.elems[2] # hist[i].ret.elems[3]

\* the number of members of a sized input, and whether all are tensors
CountOf(x) == IF x.kind = "tuple" THEN Len(x.elems) ELSE x.shape[1]
AllTensors(x) == x.kind = "tensor" \/ \A c \in 1..Len(x.elems) : x.elems[c].kind = "tensor"

Valid420(x) ==
    /\ x.kind = "tuple" /\ Len(x.elems) = 3
    /\ \A c \in 1..3 : IsPlane(x.elems[c]) /\ Len(x.elems[c].shape) = 4
                       /\ x.elems[c].dtype = "float"
    /\ x.elems[3].shape = x.elems[2].shape
    /\ x.elems[1].shape =
           Resized(x.elems[2], 2 * HeightOf(x.elems[2]), 2 * WidthOf(x.elems[2]))

\* bilinear 2x upsampling with half-pixel centres, one axis: output index k
\* blends its two nearest inputs with weights 3/4 (the nearer) and 1/4, the
\* neighbour outside the plane replaced by the edge input
Near(k) == k \div 2
Far(k, n) ==
    IF k % 2 = 0 THEN (IF k = 0 THEN 0 ELSE (k \div 2) - 1)
    ELSE (IF (k \div 2) + 1 > n - 1 THEN n - 1 ELSE (k \div 2) + 1)

\* plane u is plane t upsampled by 2 in both axes
Upsampled(u, t) ==
    /\ u.kind = "tensor"
    /\ u.shape = Resized(t, 2 * HeightOf(t), 2 * WidthOf(t))
    /\ \A p \in Positions(u) :
         LET in(i, j) == Pixel(t, p[1], 0, i, j)
             H == HeightOf(t)
             W == WidthOf(t)
         IN  QMul(QInt(16), Pixel(u, p[1], 0, p[2], p[3])) =
                 QAdd(QAdd(QMul(QInt(9), in(Near(p[2]), Near(p[3]))),
                           QMul(QInt(3), in(Near(p[2]), Far(p[3], W)))),
                      QAdd(QMul(QInt(3), in(Far(p[2], H), Near(p[3]))),
                           in(Far(p[2], H), Far(p[3], W))))

\* C5 -- for every valid 4:2:0 triple, yuv_420_to_444 with return_tuple=True
\* returns the triple (Y, U_up, V_up) with Y unchanged; with return_tuple=False,
\* also when the option is omitted, it returns one tensor whose channel axis has
\* length 3 and holds Y, U_up, V_up in that order.
C5_ReturnTuple ==
    \A i \in Calls :
        (hist[i].op = "yuv_420_to_444" /\ Valid420(hist[i].arg)) =>
            LET x == hist[i].arg
                r == hist[i].ret
                t == IF hist[i].opt = "True" THEN r.elems ELSE PlanesOf(r).elems
            IN  /\ IF hist[i].opt = "True"
                   THEN r.kind = "tuple" /\ Len(r.elems) = 3
                   ELSE r.kind = "tensor" /\ Len(r.shape) = 4 /\ ChannelsOf(r) = 3
                /\ t[1] = x.elems[1]
                /\ Upsampled(t[2], x.elems[2])
                /\ Upsampled(t[3], x.elems[3])

\* a triple with 2x2 chroma planes was upsampled with the option omitted and
\* came back as one (N,3,4,4) tensor
C5_Witness ==
    \E i \in Calls :
        /\ hist[i].op = "yuv_420_to_444" /\ hist[i].opt = "omitted"
        /\ Valid420(hist[i].arg)
        /\ hist[i].arg.elems[2].shape = <<1, 1, 2, 2>>
        /\ hist[i].ret.kind = "tensor"
        /\ hist[i].ret.shape = <<1, 3, 4, 4>>

\* C6 -- for a packed image (N,3,H,W) with even H and W, yuv_444_to_420 yields
\* luma (N,1,H,W) and chroma (N,1,H/2,W/2), and yuv_420_to_444 of that triple
\* yields chroma (N,1,H,W): the concatenated result has the input's shape.
C6_ResolutionRecovered ==
    (/\ Len(hist) >= 1
     /\ hist[1].op = "yuv_444_to_420"
     /\ Packed444(hist[1].arg)
     /\ HeightOf(hist[1].arg) % 2 = 0 /\ WidthOf(hist[1].arg) % 2 = 0)
    => LET x == hist[1].arg
           N == BatchOf(x)
           H == HeightOf(x)
           W == WidthOf(x)
           d == hist[1].ret
       IN  /\ d.kind = "tuple"
           /\ d.elems[1].shape = <<N, 1, H, W>>
           /\ d.elems[2].shape = <<N, 1, H \div 2, W \div 2>>
           /\ d.elems[3].shape = <<N, 1, H \div 2, W \div 2>>
           /\ Len(hist) = 2 =>
                IF hist[2].opt = "True"
                THEN /\ hist[2].ret.kind = "tuple"
                     /\ \A c \in 1..3 : hist[2].ret.elems[c].shape = <<N, 1, H, W>>
                ELSE /\ hist[2].ret.kind = "tensor"
                     /\ hist[2].ret.shape = x.shape

\* a (2,3,4,4) image went down to 2x2 chroma and back up to (2,3,4,4), with
\* other values than it started with
C6_Witness ==
    /\ Len(hist) = 2
    /\ hist[1].op = "yuv_444_to_420" /\ hist[2].op = "yuv_420_to_444"
    /\ hist[1].arg.kind = "tensor"
    /\ hist[1].arg.shape = <<2, 3, 4, 4>>
    /\ hist[1].ret.elems[2].shape = <<2, 1, 2, 2>>
    /\ hist[2].arg = hist[1].ret
    /\ hist[2].ret.kind = "tensor"
    /\ hist[2].ret.shape = <<2, 3, 4, 4>>
    /\ hist[2].ret # hist[1].arg

\* a 4:2:0 triple of planes of rank k
Triple420OfRank(x, k) ==
    /\ x.kind = "tuple" /\ Len(x.elems) = 3
    /\ \A c \in 1..3 : IsPlane(x.elems[c]) /\ Len(x.elems[c].shape) = k
    /\ x.elems[3].shape = x.elems[2].shape
    /\ x.elems[1].shape =
           Resized(x.elems[2], 2 * HeightOf(x.elems[2]), 2 * WidthOf(x.elems[2]))

\* the resamplers treat images of the ranks in `ranks`, of at least `least`
\* rows and columns, alike in both representations: a packed tensor is split on its channel axis and gives the
\* triple its three planes give, and a triple is upsampled into a tensor
\* concatenated on that axis
Interchangeable(ranks, least) ==
    \A i \in Calls :
        /\ (/\ hist[i].op = "yuv_444_to_420"
            /\ ValidImage(hist[i].arg)
            /\ Len(hist[i].arg.shape) \in ranks
            /\ HeightOf(hist[i].arg) >= least /\ WidthOf(hist[i].arg) >= least)
           => /\ hist[i].ret = yuv_444_to_420(PlanesOf(hist[i].arg)).ret
              /\ hist[i].ret.kind = "tuple" => hist[i].ret.elems[1] = PlanesOf(hist[i].arg).elems[1]
        /\ (/\ hist[i].op = "yuv_420_to_444"
            /\ hist[i].opt # "True"
            /\ \E k \in ranks : Triple420OfRank(hist[i].arg, k))
           => /\ hist[i].ret.kind = "tensor"
              /\ hist[i].ret.shape = [hist[i].arg.elems[1].shape
                                         EXCEPT ![Len(hist[i].arg.elems[1].shape) - 2] = 3]
              /\ PlanesOf(hist[i].ret).elems[1] = hist[i].arg.elems[1]

\* C10 as stated -- packed tensor and plane triple are interchangeable for the
\* chroma resamplers for both image ranks, (3,H,W) and (N,3,H,W) (stated for
\* the images the downsampler has room to average, 2 rows and columns or more).
C10_BothRanks == Interchangeable({3, 4}, 2)

\* C10 amended -- packed tensor and plane triple are interchangeable for the
\* chroma resamplers for rank-4 images: yuv_444_to_420 splits a packed
\* (N,3,H,W) tensor along dimension 1, its channel axis, and returns what the
\* three (N,1,H,W) planes give, and yuv_420_to_444 concatenates a triple of
\* rank-4 planes along that axis.
C10_Rank4 == Interchangeable({4}, 1)

\* a packed (N,3,4,4) image was split into its planes and downsampled
C10_Witness ==
    \E i \in Calls :
        /\ hist[i].op = "yuv_444_to_420"
        /\ ValidImage(hist[i].arg)
        /\ hist[i].arg.shape = <<1, 3, 4, 4>>
        /\ hist[i].ret.kind = "tuple"
        /\ hist[i].ret.elems[1] = PlanesOf(hist[i].arg).elems[1]
        /\ hist[i].ret.elems[1] # hist[i].ret.elems[2]
        /\ hist[i].ret = yuv_444_to_420(PlanesOf(hist[i].arg)).ret

\* C9 -- no operation mutates what it is given: whatever calls have been made
\* or are in flight at the call sites, every caller-owned object and the weight
\* table hold the values they started with, and a finished call's result is
\* the function of its own arguments.
C9_NothingMutated ==
    /\ objs = SharedObjs
    /\ YCBCR_WEIGHTS = WeightTable
    /\ \A p \in DOMAIN frames :
         frames[p].pc = "done" =>
             frames[p].ret =
                 Apply(frames[p].op, SharedObjs[frames[p].ref], frames[p].opt, WeightTable).ret

\* two calls on the same image overlap: one has returned its converted tensor
\* while the other is between its validation and its computation
C9_Witness ==
    \E p \in DOMAIN frames, q \in DOMAIN frames :
        /\ p # q
        /\ frames[p].pc = "done" /\ frames[p].op = "rgb2ycbcr"
        /\ frames[p].ret.kind = "tensor"
        /\ frames[q].pc = "checked" /\ frames[q].op = "ycbcr2rgb"
        /\ frames[q].ref = frames[p].ref

=============================================================================
